---- MODULE Spec2Model ----
(***************************************************************************)
(* Completion statistics pipeline of src/src/lib/todoist.ts:               *)
(* processTasks, calculateDayStats, calculateProjectStats,                 *)
(* calculateHourStats, calculateRecapStats, and the memo chain of          *)
(* src/src/pages/Index.tsx that composes them; and the fetch of the        *)
(* completed tasks of src/unnamed/part_001 and src/unnamed/part_004.       *)
(*                                                                         *)
(* Representation.                                                         *)
(*  - A Date is a record [kind, t]: kind "null" (no object), "invalid"     *)
(*    (getTime() is NaN) or "date"; t is the local wall-clock time in      *)
(*    whole hours since 1970-01-01T00:00 (local days are 24 hours long).   *)
(*  - A string is a sequence of tokens, "" is << >>, and concatenation is  *)
(*    \o, so `unknown-${id}` is <<"unknown-">> \o id.                      *)
(*  - A "yyyy-MM-dd" string is the triple <<yyyy, MM, dd>>; localeCompare  *)
(*    on such strings is the lexicographic order of the triples.           *)
(*  - A JS Map is the sequence of its entries in insertion order.          *)
(***************************************************************************)
EXTENDS Integers, Sequences, FiniteSets, TLC

VARIABLES
  tasks,              \* TodoistTask[]: the raw completed tasks
  projects,           \* TodoistProject[]
  startDate,          \* Date | null: range start (dateRange.from)
  endDate,            \* Date | null: range end (dateRange.to)
  thresholdPercent,   \* <<num, den>>: the fraction num/den
  minThresholdCount,
  now,                \* the value of new Date() during the call
  pc,                 \* the operation that produced the results below
  processedTasks,     \* ProcessedTask[]
  filteredTasks,      \* ProcessedTask[] (Index.tsx)
  dayStats,           \* [threw, stats]: result of calculateDayStats
  allProjectStats,    \* first-pass buckets of calculateProjectStats
  projectStats,       \* ProjectStats[]
  hourStats,          \* HourStats[]
  recapStats,         \* RecapStats
  walk,               \* the streak loop of calculateRecapStats, between iterations
  fetchState,         \* a fetch of the completed tasks, between awaits
  login               \* a request to the token-login handler, between awaits

vars == <<tasks, projects, startDate, endDate, thresholdPercent, minThresholdCount,
          now, pc, processedTasks, filteredTasks, dayStats, allProjectStats,
          projectStats, hourStats, recapStats, walk, fetchState, login>>

(***************************************************************************)
(* Bounds of the explored inputs.                                          *)
(***************************************************************************)
MaxTasks == 2        \* longest task sequence given to the date-keyed functions
MaxProjTasks == 4    \* longest task sequence given to calculateProjectStats
MaxDay == 3          \* the explored days are BaseDay .. BaseDay + MaxDay
BaseDay == 19721     \* first explored day, in days since 1970-01-01: 2023-12-30
RecapMaxLen == 6     \* most days a window of buckets given to calculateRecapStats spans
RecapMaxGap == 5     \* most days between the last day of such a window and today
LongRunDays == 800   \* days spanned by the day buckets that outlast the streak walk
MaxPages == 3        \* pages of completed tasks that are counted; later pages count as this
MaxGivenRetries == 4 \* largest `retries` argument given to fetchWithRetry

(***************************************************************************)
(* Generic sequence helpers.                                               *)
(***************************************************************************)
SeqsUpTo(S, n) == UNION {[1..k -> S] : k \in 0..n}

\* the sum of the counts of the buckets of s, taken half by half
RECURSIVE SumCounts(_)
SumCounts(s) ==
  IF Len(s) = 0 THEN 0
  ELSE IF Len(s) = 1 THEN s[1].count
  ELSE LET half == Len(s) \div 2
       IN SumCounts(SubSeq(s, 1, half)) + SumCounts(SubSeq(s, half + 1, Len(s)))

\* the sequences of ss one after the other, taken half by half
RECURSIVE Flatten(_)
Flatten(ss) ==
  IF Len(ss) = 0 THEN << >>
  ELSE IF Len(ss) = 1 THEN ss[1]
  ELSE LET half == Len(ss) \div 2
       IN Flatten(SubSeq(ss, 1, half)) \o Flatten(SubSeq(ss, half + 1, Len(ss)))

(***************************************************************************)
(* Dates (date-fns and the JS Date object).                                *)
(***************************************************************************)
NullDate == [kind |-> "null", t |-> 0]
InvalidDate == [kind |-> "invalid", t |-> 0]
DateAt(t) == [kind |-> "date", t |-> t]

\* !d : null is falsy, every Date object (an Invalid Date too) is truthy
IsNullDate(d) == d.kind = "null"
\* isNaN(d.getTime())
IsNaNDate(d) == d.kind = "invalid"

\* startOfDay(d): local midnight of d's calendar day
startOfDay(d) == IF d.kind = "date" THEN DateAt(d.t - (d.t % 24)) ELSE InvalidDate

\* isAfter(a, b): a.getTime() > b.getTime(), false when either is NaN
isAfter(a, b) == a.kind = "date" /\ b.kind = "date" /\ a.t > b.t
\* isBefore(a, b)
isBefore(a, b) == a.kind = "date" /\ b.kind = "date" /\ a.t < b.t

\* d.getHours(); NaN, which fails every comparison, is written -1
getHours(d) == IF d.kind = "date" THEN d.t % 24 ELSE -1
\* the calendar day of d, in days since 1970-01-01
DayOf(d) == d.t \div 24
\* d.setDate(d.getDate() + n) on a copy of d
AddDays(d, n) == IF d.kind = "date" THEN DateAt(d.t + 24 * n) ELSE d

\* format(d, "yyyy-MM-dd") of the day numbered z - 719468 (proleptic Gregorian)
CivilFromDays(z) ==
  LET era == z \div 146097
      doe == z - era * 146097
      yoe == (doe - (doe \div 1460) + (doe \div 36524) - (doe \div 146096)) \div 365
      doy == doe - (365 * yoe + (yoe \div 4) - (yoe \div 100))
      mp  == (5 * doy + 2) \div 153
      d   == doy - ((153 * mp + 2) \div 5) + 1
      m   == IF mp < 10 THEN mp + 3 ELSE mp - 9
      y   == yoe + era * 400 + (IF m <= 2 THEN 1 ELSE 0)
  IN <<y, m, d>>

\* format(d, "yyyy-MM-dd"); date-fns throws RangeError on an Invalid Date, which
\* every caller below excludes before formatting
format(d) == CivilFromDays(DayOf(d) + 719468)

\* startOfDay(parseISO("yyyy-MM-dd")): local midnight of the day the string names
ParseDateKey(key) ==
  LET y0  == key[1]
      m   == key[2]
      d   == key[3]
      y   == IF m <= 2 THEN y0 - 1 ELSE y0
      era == y \div 400
      yoe == y - era * 400
      mp  == IF m > 2 THEN m - 3 ELSE m + 9
      doy == ((153 * mp + 2) \div 5) + d - 1
      doe == yoe * 365 + (yoe \div 4) - (yoe \div 100) + doy
  IN DateAt((era * 146097 + doe - 719468) * 24)

\* a.localeCompare(b) <= 0 for two "yyyy-MM-dd" strings (or "")
DateKeyLeq(a, b) ==
  \/ a = b
  \/ Len(a) < 3 /\ Len(b) = 3
  \/ /\ Len(a) = 3 /\ Len(b) = 3
     /\ \/ a[1] < b[1]
        \/ a[1] = b[1] /\ a[2] < b[2]
        \/ a[1] = b[1] /\ a[2] = b[2] /\ a[3] < b[3]

(***************************************************************************)
(* processTasks                                                            *)
(***************************************************************************)
\* parseISO(s) for a completed_at value
parseISO(s) == IF s.kind = "iso" THEN DateAt(s.t) ELSE InvalidDate

\* the first .filter callback: task.completed_at is truthy (neither undefined nor "")
HasCompletedAt(task) == task.completed_at.kind \notin {"undefined", "empty"}

\* the .map callback without the isNaN check
MapTaskUnchecked(task) ==
  LET completedDate == parseISO(task.completed_at)
  IN << [id |-> task.id, completed_at |-> task.completed_at,
         project_id |-> task.project_id,
         completedDate |-> completedDate, hour |-> getHours(completedDate)] >>

\* the .map callback: << >> stands for null, <<p>> for the ProcessedTask p
MapTask(task) ==
  LET completedDate == parseISO(task.completed_at)
  IN IF IsNaNDate(completedDate)
       THEN << >>
       ELSE << [id |-> task.id, completed_at |-> task.completed_at,
                project_id |-> task.project_id,
                completedDate |-> completedDate, hour |-> getHours(completedDate)] >>

processTasks(ts) ==
  LET kept == SelectSeq(ts, HasCompletedAt)
  IN Flatten([i \in 1..Len(kept) |-> MapTask(kept[i])])

(***************************************************************************)
(* calculateDayStats                                                       *)
(***************************************************************************)
\* the guard of line 276 without its isAfter disjunct
InvalidRangeNoOrder(start, end) ==
  IsNullDate(start) \/ IsNullDate(end) \/ IsNaNDate(start) \/ IsNaNDate(end)

\* the guard of line 276 comparing the calendar days of start and end
InvalidRangeByDay(start, end) ==
  \/ IsNullDate(start) \/ IsNullDate(end)
  \/ IsNaNDate(start) \/ IsNaNDate(end)
  \/ isAfter(startOfDay(start), startOfDay(end))

\* !startDate || !endDate || isNaN(...) || isNaN(...) || isAfter(startDate, endDate)
InvalidRange(start, end) ==
  \/ IsNullDate(start) \/ IsNullDate(end)
  \/ IsNaNDate(start) \/ IsNaNDate(end)
  \/ isAfter(start, end)

\* index of the entry of the Map `stats` whose key is dateKey, 0 when it has none
DayIndex(stats, dateKey) ==
  IF \E i \in 1..Len(stats) : stats[i].date = dateKey
    THEN CHOOSE i \in 1..Len(stats) : stats[i].date = dateKey
    ELSE 0

\* a loop condition that stops one day early
LoopContinuesExclusive(currentDate, endOfDayEndDate) == isBefore(currentDate, endOfDayEndDate)

\* the loop condition !isAfter(currentDate, endOfDayEndDate)
LoopContinues(currentDate, endOfDayEndDate) == ~isAfter(currentDate, endOfDayEndDate)

\* the initialisation loop: one empty entry per day, in the order the days are visited
RECURSIVE InitDays(_, _, _)
InitDays(currentDate, endOfDayEndDate, stats) ==
  IF ~LoopContinues(currentDate, endOfDayEndDate)
    THEN stats
    ELSE LET dateKey == format(currentDate)
             nextDay == AddDays(currentDate, 1)
         IN IF DayIndex(stats, dateKey) = 0
              THEN LET stats2 == Append(stats, [date |-> dateKey, count |-> 0, tasks |-> << >>])
                   IN IF nextDay.t = currentDate.t
                        THEN stats2
                        ELSE InitDays(nextDay, endOfDayEndDate, stats2)
              ELSE IF nextDay.t = currentDate.t
                     THEN stats
                     ELSE InitDays(nextDay, endOfDayEndDate, stats)

\* a day key taken from the instant one hour later (a wrong time zone)
TaskDateKeyShifted(task) == format(DateAt(task.completedDate.t + 1))

\* format(startOfDay(task.completedDate), "yyyy-MM-dd")
TaskDateKey(task) == format(startOfDay(task.completedDate))

\* a callback that puts the task in front of the entry's tasks
AddTaskToDayFront(stats, task) ==
  IF ~IsNullDate(task.completedDate) /\ ~IsNaNDate(task.completedDate)
    THEN LET i == DayIndex(stats, TaskDateKey(task))
         IN IF i > 0
              THEN [stats EXCEPT ![i] = [date  |-> @.date,
                                         count |-> @.count + 1,
                                         tasks |-> <<task>> \o @.tasks]]
              ELSE stats
    ELSE stats

\* the forEach callback: count the task in its day's entry, if there is one
AddTaskToDay(stats, task) ==
  IF ~IsNullDate(task.completedDate) /\ ~IsNaNDate(task.completedDate)
    THEN LET i == DayIndex(stats, TaskDateKey(task))
         IN IF i > 0
              THEN [stats EXCEPT ![i] = [date  |-> @.date,
                                         count |-> @.count + 1,
                                         tasks |-> Append(@.tasks, task)]]
              ELSE stats
    ELSE stats

RECURSIVE PopulateDays(_, _)
PopulateDays(stats, ts) ==
  IF ts = << >> THEN stats ELSE PopulateDays(AddTaskToDay(stats, Head(ts)), Tail(ts))

\* Array.prototype.sort is stable: x goes after every element that compares <= x
RECURSIVE InsertByDate(_, _)
InsertByDate(sorted, x) ==
  IF sorted = << >> THEN <<x>>
  ELSE IF DateKeyLeq(sorted[Len(sorted)].date, x.date)
    THEN Append(sorted, x)
    ELSE Append(InsertByDate(SubSeq(sorted, 1, Len(sorted) - 1), x), sorted[Len(sorted)])

\* .sort((a, b) => a.date.localeCompare(b.date))
RECURSIVE SortByDate(_)
SortByDate(s) ==
  IF s = << >> THEN << >>
  ELSE InsertByDate(SortByDate(SubSeq(s, 1, Len(s) - 1)), s[Len(s)])

\* threw is TRUE when the call ends in an exception instead of returning
calculateDayStats(ts, start, end) ==
  IF InvalidRange(start, end)
    THEN [threw |-> FALSE, stats |-> << >>]
  ELSE IF start.kind # "date" \/ end.kind # "date"
    \* startOfDay(null) and format(Invalid Date) throw
    THEN [threw |-> TRUE, stats |-> << >>]
  ELSE LET initial == InitDays(startOfDay(start), startOfDay(end), << >>)
       IN [threw |-> FALSE, stats |-> SortByDate(PopulateDays(initial, ts))]

(***************************************************************************)
(* calculateProjectStats                                                   *)
(***************************************************************************)
noProjectId == <<"no-project">>
DefaultGrey == <<"#808080">>

\* `${task.project_id}`
ProjectIdText(pid) == IF pid.defined THEN pid.s ELSE <<"undefined">>

\* !projectId
NoProjectIdGiven(pid) == ~pid.defined \/ pid.s = << >>

\* projectMap.get(id) over new Map(projects.map(p => [p.id, p])): the last
\* project with this id, << >> when there is none
ProjectMapGet(ps, id) ==
  LET hits == {i \in 1..Len(ps) : ps[i].id = id}
  IN IF hits = {} THEN << >>
     ELSE << ps[CHOOSE i \in hits : \A j \in hits : j <= i] >>

\* a classification that files an unknown project under "no-project"
ClassifyUnknownAsNone(task, ps) ==
  LET found == IF NoProjectIdGiven(task.project_id) THEN << >>
               ELSE ProjectMapGet(ps, task.project_id.s)
  IN IF found = << >>
       THEN [key |-> noProjectId, name |-> <<"No Project">>, color |-> DefaultGrey]
       ELSE [key   |-> task.project_id.s,
             name  |-> IF found[1].name # << >> THEN found[1].name
                       ELSE <<"Unnamed Project ">> \o found[1].id,
             color |-> IF found[1].color # << >> THEN found[1].color ELSE DefaultGrey]

\* lines 346-363: the key, name and color a task is counted under
Classify(task, ps) ==
  LET projectId == task.project_id
      unknown   == [key   |-> <<"unknown-">> \o ProjectIdText(projectId),
                    name  |-> <<"Unknown/Archived (">> \o ProjectIdText(projectId) \o <<")">>,
                    color |-> DefaultGrey]
  IN IF NoProjectIdGiven(projectId)
       THEN [unknown EXCEPT !.key = noProjectId, !.name = <<"No Project">>]
       ELSE LET project == ProjectMapGet(ps, projectId.s)
            IN IF project # << >>
                 THEN [key   |-> projectId.s,
                       name  |-> IF project[1].name # << >> THEN project[1].name
                                 ELSE <<"Unnamed Project ">> \o project[1].id,
                       color |-> IF project[1].color # << >> THEN project[1].color
                                 ELSE DefaultGrey]
                 ELSE unknown

\* a lookup that never finds the key, as a list searched by object identity would
ProjectIndexNever(stats, key) == 0

\* index of the entry of the Map `stats` whose key is `key`, 0 when it has none
ProjectIndex(stats, key) ==
  IF \E i \in 1..Len(stats) : stats[i].projectId = key
    THEN CHOOSE i \in 1..Len(stats) : stats[i].projectId = key
    ELSE 0

\* the first-pass forEach callback
CountTask(stats, task, ps) ==
  LET c == Classify(task, ps)
      i == ProjectIndex(stats, c.key)
  IN IF i > 0
       THEN [stats EXCEPT ![i].count = @ + 1]
       ELSE Append(stats, [projectId |-> c.key, projectName |-> c.name,
                           count |-> 1, color |-> c.color])

\* the first pass: Array.from(stats.values()) after the forEach
RECURSIVE FirstPass(_, _, _)
FirstPass(stats, ts, ps) ==
  IF Len(ts) = 0 THEN stats
  ELSE IF Len(ts) = 1 THEN CountTask(stats, ts[1], ps)
  \* the forEach over the first half of ts, then, from the Map that leaves, over
  \* the second
  ELSE LET half    == Len(ts) \div 2
           counted == FirstPass(stats, SubSeq(ts, 1, half), ps)
       IN CASE Len(counted) > 0 -> FirstPass(counted, SubSeq(ts, half + 1, Len(ts)), ps)

\* Math.floor(totalTasks * thresholdPercent), thresholdPercent = pct[1] / pct[2]
PercentageThresholdCount(totalTasks, pct) == (totalTasks * pct[1]) \div pct[2]

Min2(a, b) == IF a < b THEN a ELSE b
Max2(a, b) == IF a > b THEN a ELSE b

\* a threshold that takes the larger of the two counts
ActualThresholdLarger(totalTasks, pct, minCount) ==
  Max2(1, Max2(minCount, PercentageThresholdCount(totalTasks, pct)))

\* Math.max(1, Math.min(minThresholdCount, percentageThresholdCount))
ActualThreshold(totalTasks, pct, minCount) ==
  Max2(1, Min2(minCount, PercentageThresholdCount(totalTasks, pct)))

\* a folding test that does not exempt "no-project"
ShouldFoldAny(stat, actualThreshold) == stat.count < actualThreshold

\* stat.count < actualThreshold && stat.projectId !== noProjectId
ShouldFold(stat, actualThreshold) ==
  stat.count < actualThreshold /\ stat.projectId # noProjectId

\* otherCount += 1
AddToOtherOne(otherCount, stat) == otherCount + 1

\* otherCount += stat.count
AddToOther(otherCount, stat) == otherCount + stat.count

\* the second-pass forEach: [finalStats, otherCount] after visiting `stats`
RECURSIVE SecondPass(_, _, _)
SecondPass(acc, stats, actualThreshold) ==
  IF stats = << >> THEN acc
  ELSE LET stat == Head(stats)
           acc2 == IF ShouldFold(stat, actualThreshold)
                     THEN [acc EXCEPT !.otherCount = AddToOther(@, stat)]
                     ELSE [acc EXCEPT !.finalStats = Append(@, stat)]
       IN SecondPass(acc2, Tail(stats), actualThreshold)

\* a comparator that sorts ascending
CountOrderAscending(a, b) == a.count - b.count <= 0

\* the comparator (a, b) => b.count - a.count is <= 0: a may stay before b
CountOrder(a, b) == b.count - a.count <= 0

RECURSIVE InsertByCount(_, _)
InsertByCount(sorted, x) ==
  IF sorted = << >> THEN <<x>>
  ELSE IF CountOrder(sorted[Len(sorted)], x)
    THEN Append(sorted, x)
    ELSE Append(InsertByCount(SubSeq(sorted, 1, Len(sorted) - 1), x), sorted[Len(sorted)])

\* finalStats.sort((a, b) => b.count - a.count)
RECURSIVE SortByCount(_)
SortByCount(s) ==
  IF s = << >> THEN << >>
  ELSE InsertByCount(SortByCount(SubSeq(s, 1, Len(s) - 1)), s[Len(s)])

OtherBucket(otherCount) ==
  [projectId |-> <<"other-projects">>, projectName |-> <<"Other">>,
   count |-> otherCount, color |-> <<"#A0A0A0">>]

\* ts holds no null entry, so totalTasks is ts.length
calculateProjectStats(ts, ps, pct, minCount) ==
  LET all             == FirstPass(<< >>, ts, ps)
      totalTasks      == Len(ts)
      actualThreshold == ActualThreshold(totalTasks, pct, minCount)
      second          == SecondPass([finalStats |-> << >>, otherCount |-> 0], all, actualThreshold)
      finalStats      == IF second.otherCount > 0
                           THEN Append(second.finalStats, OtherBucket(second.otherCount))
                           ELSE second.finalStats
  IN SortByCount(finalStats)

(***************************************************************************)
(* calculateHourStats                                                      *)
(***************************************************************************)
\* a loop that stops at hour < 23
InitialHourMapShort == [i \in 1..23 |-> [hour |-> i - 1, count |-> 0]]

\* for (let hour = 0; hour < 24; hour++) stats.set(hour, 0)
InitialHourMap == [i \in 1..24 |-> [hour |-> i - 1, count |-> 0]]

\* index of the entry of the Map `stats` whose key is hour, 0 when it has none
HourIndex(stats, hour) ==
  IF \E i \in 1..Len(stats) : stats[i].hour = hour
    THEN CHOOSE i \in 1..Len(stats) : stats[i].hour = hour
    ELSE 0

\* a callback without the range check on task.hour
AddTaskToHourUnchecked(stats, task) ==
  LET i == HourIndex(stats, task.hour)
  IN IF i > 0
       THEN [stats EXCEPT ![i].count = @ + 1]
       ELSE Append(stats, [hour |-> task.hour, count |-> 1])

\* the forEach callback; a NaN hour fails both comparisons
AddTaskToHour(stats, task) ==
  IF task.hour >= 0 /\ task.hour <= 23
    THEN LET i == HourIndex(stats, task.hour)
         IN IF i > 0
              THEN [stats EXCEPT ![i].count = @ + 1]
              ELSE Append(stats, [hour |-> task.hour, count |-> 1])
    ELSE stats

RECURSIVE PopulateHours(_, _)
PopulateHours(stats, ts) ==
  IF ts = << >> THEN stats ELSE PopulateHours(AddTaskToHour(stats, Head(ts)), Tail(ts))

RECURSIVE InsertByHour(_, _)
InsertByHour(sorted, x) ==
  IF sorted = << >> THEN <<x>>
  ELSE IF sorted[Len(sorted)].hour - x.hour <= 0
    THEN Append(sorted, x)
    ELSE Append(InsertByHour(SubSeq(sorted, 1, Len(sorted) - 1), x), sorted[Len(sorted)])

\* .sort((a, b) => a.hour - b.hour)
RECURSIVE SortByHour(_)
SortByHour(s) ==
  IF s = << >> THEN << >>
  ELSE InsertByHour(SortByHour(SubSeq(s, 1, Len(s) - 1)), s[Len(s)])

calculateHourStats(ts) == SortByHour(PopulateHours(InitialHourMap, ts))

(***************************************************************************)
(* calculateRecapStats                                                     *)
(***************************************************************************)
StreakMaxDays == 730

\* dayMap.get(dateKey): << >> for undefined, else <<count>> of the last entry
\* with that (non-empty) date
DayMapGet(ds, dateKey) ==
  LET hits == {i \in 1..Len(ds) : ds[i].date = dateKey /\ ds[i].date # << >>}
  IN IF hits = {} THEN << >>
     ELSE << ds[CHOOSE i \in hits : \A j \in hits : j <= i].count >>

\* startOfDay(parseISO(earliestDateStr)), null when no entry has a date
EarliestDate(ds) ==
  LET dated == {i \in 1..Len(ds) : ds[i].date # << >>}
  IN IF dated = {} THEN NullDate
     ELSE ParseDateKey(ds[CHOOSE i \in dated :
                            \A j \in dated : DateKeyLeq(ds[i].date, ds[j].date)].date)

\* differenceInDays(a, b) for a not before b: the full days from b to a
differenceInDays(a, b) == (a.t - b.t) \div 24

\* a total that counts the buckets instead of adding their counts
TotalDoneBuckets(ds) == Len(ds)

\* dayStats.reduce((sum, day) => sum + (day?.count || 0), 0)
TotalDone(ds) == SumCounts(ds)

\* a zero-count day that ends the walk even when it is today
ZeroDayAlwaysBreaks(currentDate, nowDate) == TRUE

\* a zero-count day that never ends the walk
ZeroDayNeverBreaks(currentDate, nowDate) == FALSE

\* line 474: a day present with count 0 ends the walk unless it is today
ZeroDayBreaks(currentDate, nowDate) == format(currentDate) # format(nowDate)

\* a missing day that always ends the walk
MissingDayAlwaysBreaks(currentDate, currentStreak, earliestDate) == TRUE

\* lines 466-469: a day missing from dayMap ends the walk when it lies before the
\* earliest bucket or when a streak has started
MissingDayBreaks(currentDate, currentStreak, earliestDate) ==
  \/ ~IsNullDate(earliestDate) /\ isBefore(currentDate, earliestDate)
  \/ currentStreak > 0

\* a safety bound that lets the walk go one day further
PastSafetyBoundLate(nowDate, prevDay) ==
  differenceInDays(nowDate, prevDay) > StreakMaxDays + 1

\* differenceInDays(new Date(), prevDay) > 730
PastSafetyBound(nowDate, prevDay) ==
  differenceInDays(nowDate, prevDay) > StreakMaxDays

\* one iteration of the while (true) loop, examining currentDate: done is TRUE
\* when the iteration ends in a break, else currentDate is the day examined next
StreakIteration(currentDate, currentStreak, ds, earliestDate, nowDate) ==
  LET dateKey == format(currentDate)
      count   == DayMapGet(ds, dateKey)
      counted == count # << >> /\ count[1] > 0
      streak2 == IF counted THEN currentStreak + 1 ELSE currentStreak
      stop    == IF counted THEN FALSE
                 ELSE IF count = << >>
                   THEN MissingDayBreaks(currentDate, currentStreak, earliestDate)
                   ELSE ZeroDayBreaks(currentDate, nowDate)
      prevDay == AddDays(currentDate, -1)
      done    == \/ stop
                 \/ PastSafetyBound(nowDate, prevDay)
                 \/ prevDay.t = currentDate.t
  IN [done          |-> done,
      currentDate   |-> IF done THEN currentDate ELSE prevDay,
      currentStreak |-> streak2]

\* the while (true) loop, from the iteration that examines currentDate
RECURSIVE StreakWalk(_, _, _, _)
StreakWalk(currentDate, currentStreak, ds, nowDate) ==
  LET it == StreakIteration(currentDate, currentStreak, ds, EarliestDate(ds), nowDate)
  IN IF it.done THEN it.currentStreak
     ELSE StreakWalk(it.currentDate, it.currentStreak, ds, nowDate)

\* the bestDay reduce, from { date: "", count: 0 }
RECURSIVE BestDayReduce(_, _)
BestDayReduce(best, ds) ==
  IF ds = << >> THEN best
  ELSE BestDayReduce(IF Head(ds).count > best.count
                       THEN [date |-> Head(ds).date, count |-> Head(ds).count]
                       ELSE best,
                     Tail(ds))

\* a top project taken from the last bucket
TopProjectLast(ps) ==
  IF Len(ps) > 0 THEN [name |-> ps[Len(ps)].projectName, count |-> ps[Len(ps)].count]
  ELSE [name |-> <<"N/A">>, count |-> 0]

\* lines 498 and 507-510: projectStats[0], with "N/A" and 0 for what it lacks
TopProject(ps) ==
  IF Len(ps) > 0
    THEN [name  |-> IF ps[1].projectName # << >> THEN ps[1].projectName ELSE <<"N/A">>,
          count |-> ps[1].count]
    ELSE [name |-> <<"N/A">>, count |-> 0]

\* dayStats left sorted by count, as a sort applied to the argument would leave it
DayStatsSortedInPlace(ds) == SortByCount(ds)

\* the array dayStats as the call leaves it: the .sort of line 454 is applied to
\* the array that dayStats.map(...).filter(Boolean) returns, and reduce only reads
DayStatsAfterRecap(ds) == ds

calculateRecapStats(ds, ps, nowDate) ==
  LET totalDone     == TotalDone(ds)
      currentStreak == IF Len(ds) > 0 THEN StreakWalk(startOfDay(nowDate), 0, ds, nowDate) ELSE 0
      bestDay       == BestDayReduce([date |-> << >>, count |-> 0], ds)
  IN [totalDone     |-> totalDone,
      currentStreak |-> currentStreak,
      bestDay       |-> [date  |-> IF bestDay.date # << >> THEN bestDay.date ELSE format(nowDate),
                         count |-> bestDay.count],
      topProject    |-> TopProject(ps)]

(***************************************************************************)
(* The memo chain of Index.tsx                                             *)
(***************************************************************************)
DefaultThresholdPercent == <<2, 100>>
DefaultMinThresholdCount == 5
DefaultRangeDays == 30

\* dateRange?.from && !isNaN(dateRange.from.getTime())
UsableDate(d) == ~IsNullDate(d) /\ ~IsNaNDate(d)

\* the filteredTasks memo
FilterTasks(processed, from, to) ==
  IF ~UsableDate(from) \/ ~UsableDate(to)
    THEN processed
    ELSE LET rangeStart == startOfDay(from)
             rangeEnd   == startOfDay(to)
             InRange(task) ==
               /\ UsableDate(task.completedDate)
               /\ ~isBefore(startOfDay(task.completedDate), rangeStart)
               /\ ~isAfter(startOfDay(task.completedDate), rangeEnd)
         IN SelectSeq(processed, InRange)

\* the dayStats memo
DayStatsMemo(filtered, from, to, nowDate) ==
  LET fromDate == IF UsableDate(from) THEN from ELSE AddDays(nowDate, -DefaultRangeDays)
      toDate   == IF UsableDate(to) THEN to ELSE nowDate
  IN IF Len(filtered) > 0
       THEN calculateDayStats(filtered, fromDate, toDate)
       ELSE [threw |-> FALSE, stats |-> << >>]

(***************************************************************************)
(* Explored inputs                                                         *)
(***************************************************************************)
Days == BaseDay .. (BaseDay + MaxDay)

Undefined == [kind |-> "undefined", t |-> 0]
EmptyText == [kind |-> "empty", t |-> 0]
NotADate  == [kind |-> "text", t |-> 0]
Iso(t)    == [kind |-> "iso", t |-> t]

NoId      == [defined |-> FALSE, s |-> << >>]
Id(s)     == [defined |-> TRUE, s |-> s]

\* raw tasks: the i-th task of a sequence has id i
MkTasks(shapes) ==
  [i \in 1..Len(shapes) |->
     [id |-> i, completed_at |-> shapes[i][1], project_id |-> shapes[i][2]]]

Project(id, name, color) == [id |-> id, name |-> name, color |-> color]

Work == Project(<<"p1">>, <<"Work">>, <<"red">>)

ProjectLists ==
  { << >>,
    << Work, Project(<<"p2">>, << >>, << >>) >>,
    << Work, Project(<<"p1">>, <<"Home">>, <<"blue">>) >> }

ProjectIds == {NoId, Id(<< >>), Id(<<"p1">>), Id(<<"p2">>), Id(<<"ghost">>)}

\* Scenario C: 100 tasks, 48 + 48 in two projects and 1 in each of four others
ScenarioCProjects ==
  [i \in 1..6 |-> Project(<<"c", i>>, <<"Project ", i>>, <<"red">>)]

ScenarioCTasks ==
  MkTasks([i \in 1..100 |->
            << Iso(BaseDay * 24 + 10),
               Id(<<"c", IF i <= 48 THEN 1 ELSE IF i <= 96 THEN 2 ELSE i - 94>>) >>])

\* calculateRecapStats is not running
NoWalk == [currentDate |-> NullDate, currentStreak |-> 0, earliestDate |-> NullDate]

\* no request to the token-login handler
NoLogin == [pc |-> "none", method |-> "POST", token |-> [kind |-> "undefined", s |-> << >>],
            secret |-> FALSE, accessToken |-> << >>, calls |-> << >>, cookie |-> << >>,
            status |-> 0, body |-> [kind |-> "none", profile |-> "none"]]

\* no fetch is running
NoFetch == [fn |-> "none", pc |-> "idle", retries |-> 0, pages |-> 0, odd |-> FALSE,
            items |-> 0]

NoRecap == [totalDone |-> 0, currentStreak |-> 0,
            bestDay |-> [date |-> << >>, count |-> 0],
            topProject |-> [name |-> << >>, count |-> 0]]

Idle ==
  /\ filteredTasks = << >>
  /\ dayStats = [threw |-> FALSE, stats |-> << >>]
  /\ allProjectStats = << >>
  /\ projectStats = << >>
  /\ hourStats = << >>
  /\ recapStats = NoRecap
  /\ walk = NoWalk
  /\ fetchState = NoFetch
  /\ login = NoLogin

DefaultArguments ==
  /\ projects = << >>
  /\ startDate = NullDate
  /\ endDate = NullDate
  /\ thresholdPercent = DefaultThresholdPercent
  /\ minThresholdCount = DefaultMinThresholdCount
  /\ now = DateAt((BaseDay + MaxDay) * 24 + 12)

(***************************************************************************)
(* processTasks over every raw task sequence                               *)
(***************************************************************************)
InitNormalize ==
  /\ \E shapes \in SeqsUpTo(({Undefined, EmptyText, NotADate}
                              \cup {Iso(d * 24 + h) : d \in Days, h \in {0, 10, 23}})
                            \X {Id(<<"p1">>)}, MaxTasks) :
       tasks = MkTasks(shapes)
  /\ DefaultArguments
  /\ pc = "init"
  /\ processedTasks = << >>
  /\ Idle

CallProcessTasks ==
  /\ pc = "init"
  /\ pc' = "processTasks"
  /\ processedTasks' = processTasks(tasks)
  /\ UNCHANGED <<walk, fetchState, login>>
  /\ UNCHANGED <<tasks, projects, startDate, endDate, thresholdPercent, minThresholdCount,
                 now, filteredTasks, dayStats, allProjectStats, projectStats, hourStats,
                 recapStats>>

NextNormalize == CallProcessTasks

SpecNormalize == InitNormalize /\ [][NextNormalize]_vars

(***************************************************************************)
(* calculateDayStats over normalized tasks and every range                 *)
(***************************************************************************)
RangeDates == {NullDate, InvalidDate} \cup {DateAt(d * 24 + h) : d \in Days, h \in {0, 12}}

InitDay ==
  /\ \E shapes \in SeqsUpTo({Iso(d * 24 + h) : d \in Days, h \in {0, 23}}
                            \X {Id(<<"p1">>)}, MaxTasks) :
       tasks = MkTasks(shapes)
  /\ projects = << >>
  /\ startDate \in RangeDates
  /\ endDate \in RangeDates
  /\ thresholdPercent = DefaultThresholdPercent
  /\ minThresholdCount = DefaultMinThresholdCount
  /\ now = DateAt((BaseDay + MaxDay) * 24 + 12)
  /\ pc = "init"
  /\ processedTasks = processTasks(tasks)
  /\ Idle

CallCalculateDayStats ==
  /\ pc = "init"
  /\ pc' = "calculateDayStats"
  /\ dayStats' = calculateDayStats(processedTasks, startDate, endDate)
  /\ UNCHANGED <<walk, fetchState, login>>
  /\ UNCHANGED <<tasks, projects, startDate, endDate, thresholdPercent, minThresholdCount,
                 now, processedTasks, filteredTasks, allProjectStats, projectStats,
                 hourStats, recapStats>>

NextDay == CallCalculateDayStats

SpecDay == InitDay /\ [][NextDay]_vars

(***************************************************************************)
(* calculateProjectStats over normalized tasks, project lists, thresholds  *)
(***************************************************************************)
InitProject ==
  /\ \/ /\ \E shapes \in SeqsUpTo({Iso(BaseDay * 24 + 10)} \X ProjectIds, MaxProjTasks) :
             tasks = MkTasks(shapes)
        /\ projects \in ProjectLists
        /\ thresholdPercent \in {DefaultThresholdPercent, <<1, 2>>, <<1, 1>>}
        /\ minThresholdCount \in {2, DefaultMinThresholdCount}
     \/ /\ tasks \in {ScenarioCTasks, SubSeq(ScenarioCTasks, 1, 99)}
        /\ projects = ScenarioCProjects
        /\ thresholdPercent = DefaultThresholdPercent
        /\ minThresholdCount = DefaultMinThresholdCount
  /\ startDate = NullDate
  /\ endDate = NullDate
  /\ now = DateAt((BaseDay + MaxDay) * 24 + 12)
  /\ pc = "init"
  /\ processedTasks = processTasks(tasks)
  /\ Idle

CallCalculateProjectStats ==
  /\ pc = "init"
  /\ pc' = "calculateProjectStats"
  /\ allProjectStats' = FirstPass(<< >>, processedTasks, projects)
  /\ projectStats' = calculateProjectStats(processedTasks, projects,
                                           thresholdPercent, minThresholdCount)
  /\ UNCHANGED <<walk, fetchState, login>>
  /\ UNCHANGED <<tasks, projects, startDate, endDate, thresholdPercent, minThresholdCount,
                 now, processedTasks, filteredTasks, dayStats, hourStats, recapStats>>

NextProject == CallCalculateProjectStats

SpecProject == InitProject /\ [][NextProject]_vars

(***************************************************************************)
(* calculateHourStats over normalized tasks of every hour                  *)
(***************************************************************************)
\* hours no Date gives: NaN (written -1) and 24, next to the hour 9 o'clock
OddHours == {-1, 9, 24}

\* ProcessedTasks completed at 9 o'clock whose hour fields are hours[1], hours[2], ...
TasksWithHours(ts, hours) ==
  [i \in 1..Len(ts) |-> [ts[i] EXCEPT !.hour = hours[i]]]

InitHour ==
  /\ DefaultArguments
  /\ pc = "init"
  /\ \/ /\ \E shapes \in SeqsUpTo({Iso(BaseDay * 24 + h) : h \in 0..23}
                                  \X {Id(<<"p1">>)}, MaxTasks) :
             tasks = MkTasks(shapes)
        /\ processedTasks = processTasks(tasks)
     \/ /\ \E hours \in SeqsUpTo(OddHours, MaxTasks) :
             /\ tasks = MkTasks([i \in 1..Len(hours) |->
                                  <<Iso(BaseDay * 24 + 9), Id(<<"p1">>)>>])
             /\ processedTasks = TasksWithHours(processTasks(tasks), hours)
  /\ Idle

CallCalculateHourStats ==
  /\ pc = "init"
  /\ pc' = "calculateHourStats"
  /\ hourStats' = calculateHourStats(processedTasks)
  /\ UNCHANGED <<walk, fetchState, login>>
  /\ UNCHANGED <<tasks, projects, startDate, endDate, thresholdPercent, minThresholdCount,
                 now, processedTasks, filteredTasks, dayStats, allProjectStats,
                 projectStats, recapStats>>

NextHour == CallCalculateHourStats

SpecHour == InitHour /\ [][NextHour]_vars

(***************************************************************************)
(* calculateRecapStats over windows of day buckets before today            *)
(***************************************************************************)
\* a ProcessedTask completed at noon of day d
NoonTask(d) ==
  MapTask([id |-> 1, completed_at |-> Iso(d * 24 + 12), project_id |-> Id(<<"p1">>)])[1]

\* the bucket calculateDayStats returns for day d when n tasks were completed on it
DayBucket(d, n) ==
  [date |-> format(DateAt(d * 24)), count |-> n, tasks |-> [i \in 1..n |-> NoonTask(d)]]

\* no bucket for this day
Absent == -1

\* buckets of the days first, first + 1, ... in ascending order: the i-th day has
\* counts[i] tasks, and no bucket when counts[i] is Absent
RECURSIVE DayBuckets(_, _)
DayBuckets(first, counts) ==
  IF counts = << >> THEN << >>
  ELSE (IF Head(counts) = Absent THEN << >> ELSE << DayBucket(first, Head(counts)) >>)
       \o DayBuckets(first + 1, Tail(counts))

\* project buckets as calculateProjectStats returns them
RecapProjectStats ==
  { calculateProjectStats(processTasks(MkTasks(shapes)), << Work >>,
                          DefaultThresholdPercent, DefaultMinThresholdCount) :
      shapes \in { << >>,
                   << <<Iso(BaseDay * 24), Id(<<"ghost">>)>>,
                      <<Iso(BaseDay * 24), Id(<<"p1">>)>>,
                      <<Iso(BaseDay * 24), Id(<<"p1">>)>> >> } }

InitRecap ==
  /\ tasks = << >>
  /\ DefaultArguments
  /\ pc = "init"
  /\ processedTasks = << >>
  /\ filteredTasks = << >>
  /\ \E counts \in SeqsUpTo({Absent, 0, 1, 2}, RecapMaxLen), gap \in 0..RecapMaxGap :
       dayStats = [threw |-> FALSE,
                   stats |-> DayBuckets(DayOf(now) - gap - Len(counts) + 1, counts)]
  /\ allProjectStats = << >>
  /\ projectStats \in RecapProjectStats
  /\ hourStats = << >>
  /\ recapStats = NoRecap
  /\ walk = NoWalk
  /\ fetchState = NoFetch
  /\ login = NoLogin

CallCalculateRecapStats ==
  /\ pc = "init"
  /\ pc' = "calculateRecapStats"
  /\ recapStats' = calculateRecapStats(dayStats.stats, projectStats, now)
  /\ dayStats' = [dayStats EXCEPT !.stats = DayStatsAfterRecap(@)]
  /\ UNCHANGED <<walk, fetchState, login>>
  /\ UNCHANGED <<tasks, projects, startDate, endDate, thresholdPercent, minThresholdCount,
                 now, processedTasks, filteredTasks, allProjectStats, projectStats,
                 hourStats>>

NextRecap == CallCalculateRecapStats

SpecRecap == InitRecap /\ [][NextRecap]_vars

(***************************************************************************)
(* The streak loop of calculateRecapStats, one iteration at a time         *)
(***************************************************************************)
\* a bucket whose date is the empty string, which line 452 keeps out of dayMap
UndatedBucket == [date |-> << >>, count |-> 1, tasks |-> << NoonTask(BaseDay) >>]

\* day buckets that reach further back than the walk: a task on every one of the
\* last LongRunDays days, a single day LongRunDays days ago, and an undated bucket
LongRuns(today) ==
  { [i \in 1..LongRunDays |-> DayBucket(today - LongRunDays + i, 1)],
    [i \in 1..LongRunDays |->
       DayBucket(today - LongRunDays + i, IF i = LongRunDays THEN 0 ELSE 1)],
    << DayBucket(today - LongRunDays, 1) >>,
    << UndatedBucket >> }

\* processed tasks completed at noon of the days first, first + 1, ... that are
\* marked 1
RECURSIVE NoonTasks(_, _)
NoonTasks(first, marks) ==
  IF marks = << >> THEN << >>
  ELSE (IF Head(marks) = 1 THEN << NoonTask(first) >> ELSE << >>)
       \o NoonTasks(first + 1, Tail(marks))

\* what calculateDayStats returns for a range that holds today: it starts up to
\* MaxDay days before today and ends today or tomorrow
DenseRanges(today) ==
  { calculateDayStats(NoonTasks(today - MaxDay, marks),
                      DateAt(s * 24), DateAt(e * 24 + 12)).stats :
      marks \in [1..(MaxDay + 2) -> {0, 1}],
      s \in (today - MaxDay)..today,
      e \in today..(today + 1) }

InitStreak ==
  /\ tasks = << >>
  /\ DefaultArguments
  /\ pc = "init"
  /\ processedTasks = << >>
  /\ filteredTasks = << >>
  /\ \/ \E counts \in SeqsUpTo({Absent, 0, 1}, RecapMaxLen), gap \in 0..RecapMaxGap :
          dayStats = [threw |-> FALSE,
                      stats |-> DayBuckets(DayOf(now) - gap - Len(counts) + 1, counts)]
     \/ \E ds \in LongRuns(DayOf(now)) \cup DenseRanges(DayOf(now)) :
          dayStats = [threw |-> FALSE, stats |-> ds]
  /\ allProjectStats = << >>
  /\ projectStats = << >>
  /\ hourStats = << >>
  /\ recapStats = NoRecap
  /\ walk = NoWalk
  /\ fetchState = NoFetch
  /\ login = NoLogin

\* lines 449-455: currentStreak = 0 and, for a non-empty dayStats, the loop is
\* entered at today's midnight with earliestDate computed once
EnterStreak ==
  /\ pc = "init"
  /\ IF Len(dayStats.stats) > 0
       THEN /\ pc' = "loop"
            /\ walk' = [currentDate   |-> startOfDay(now),
                        currentStreak |-> 0,
                        earliestDate  |-> EarliestDate(dayStats.stats)]
       ELSE /\ pc' = "done"
            /\ walk' = NoWalk
  /\ UNCHANGED <<tasks, projects, startDate, endDate, thresholdPercent, minThresholdCount,
                 now, processedTasks, filteredTasks, dayStats, allProjectStats,
                 projectStats, hourStats, recapStats, fetchState, login>>

\* lines 457-488: one iteration of while (true)
StreakStep ==
  /\ pc = "loop"
  /\ LET it == StreakIteration(walk.currentDate, walk.currentStreak, dayStats.stats,
                               walk.earliestDate, now)
     IN /\ walk' = [walk EXCEPT !.currentDate = it.currentDate,
                                !.currentStreak = it.currentStreak]
        /\ pc' = IF it.done THEN "done" ELSE "loop"
  /\ UNCHANGED <<tasks, projects, startDate, endDate, thresholdPercent, minThresholdCount,
                 now, processedTasks, filteredTasks, dayStats, allProjectStats,
                 projectStats, hourStats, recapStats, fetchState, login>>

NextStreak == EnterStreak \/ StreakStep

SpecStreak == InitStreak /\ [][NextStreak]_vars

(***************************************************************************)
(* Each aggregator called once on the same arguments                       *)
(***************************************************************************)
InitAggregators ==
  /\ \E shapes \in SeqsUpTo({Iso(d * 24 + 10) : d \in Days} \X {NoId, Id(<<"p1">>)},
                            MaxTasks) :
       tasks = MkTasks(shapes)
  /\ projects \in ProjectLists
  /\ startDate = DateAt(BaseDay * 24)
  /\ endDate = DateAt((BaseDay + MaxDay) * 24)
  /\ thresholdPercent = DefaultThresholdPercent
  /\ minThresholdCount = DefaultMinThresholdCount
  /\ now = DateAt((BaseDay + MaxDay) * 24 + 12)
  /\ pc = "init"
  /\ processedTasks = processTasks(tasks)
  /\ filteredTasks = << >>
  /\ \E counts \in {<< >>, <<0, 1>>, <<1, 2>>, <<2, 1, 1>>} :
       dayStats = [threw |-> FALSE,
                   stats |-> DayBuckets(DayOf(now) - Len(counts) + 1, counts)]
  /\ allProjectStats = << >>
  /\ projectStats \in RecapProjectStats
  /\ hourStats = << >>
  /\ recapStats = NoRecap
  /\ walk = NoWalk
  /\ fetchState = NoFetch
  /\ login = NoLogin

NextAggregators ==
  \/ CallCalculateDayStats
  \/ CallCalculateProjectStats
  \/ CallCalculateHourStats
  \/ CallCalculateRecapStats

SpecAggregators == InitAggregators /\ [][NextAggregators]_vars

(***************************************************************************)
(* Fetching the completed tasks: fetchTodoistCompletedTasks                *)
(* (src/unnamed/part_001, paging by offset) and fetchCompletedTasks        *)
(* (src/unnamed/part_004, paging by cursor), each over fetchWithRetry.     *)
(* fetchState is [fn, pc, retries, pages, odd, items]: pc is "fetch" while  *)
(* the call awaits fetch(url), then "resolved" or "rejected"; pages and    *)
(* items count the pages and items received, up to MaxPages pages, and odd *)
(* is the parity of the number of pages received.                          *)
(***************************************************************************)
PageLimit == 200
DefaultRetries == 3

\* what one fetch(url) ends in: status 0 stands for a rejected fetch (a network
\* error), else the HTTP status with, for 200, the number of items of the page
\* and whether the body carries a next_cursor
Responses ==
  [status : {0, 401, 404, 429, 500}, items : {0}, next_cursor : {FALSE}]
  \cup [status : {200}, items : {0, 1, PageLimit}, next_cursor : BOOLEAN]

\* response.ok
Ok(response) == response.status \in 200..299

\* an attempt that retries after every response that is not ok
AttemptRetriesNotOk(response, retries) ==
  IF response.status = 0
    THEN IF retries > 0 THEN "retry" ELSE "throw"
    ELSE IF ~Ok(response) /\ retries > 0 THEN "retry"
    ELSE "return"

\* one attempt of fetchWithRetry: it calls itself again ("retry"), returns the
\* response ("return") or rethrows the network error ("throw")
Attempt(response, retries) ==
  IF response.status = 0
    THEN IF retries > 0 THEN "retry" ELSE "throw"
    ELSE IF response.status = 429 /\ retries > 0 THEN "retry"
    ELSE IF ~Ok(response) /\ response.status >= 500 /\ retries > 0 THEN "retry"
    ELSE "return"

\* another page was received: the next request starts with the default retries
NextPage(st, response) ==
  [st EXCEPT !.retries = DefaultRetries,
             !.pages = Min2(@ + 1, MaxPages),
             !.odd = ~@,
             !.items = Min2(@ + response.items, MaxPages * PageLimit)]

\* fetchTodoistCompletedTasks on the response of a page: the loop breaks when
\* the page holds fewer than `limit` items, else offset += limit
OffsetPage(st, response) ==
  IF response.status = 401 \/ response.status = 403 \/ ~Ok(response)
    THEN [st EXCEPT !.pc = "rejected"]
    ELSE IF response.items < PageLimit
      THEN [NextPage(st, response) EXCEPT !.pc = "resolved"]
      ELSE NextPage(st, response)

\* fetchCompletedTasks on the response of a page: do ... while (cursor)
CursorPage(st, response) ==
  IF response.status = 401 \/ response.status = 403 \/ ~Ok(response)
    THEN [st EXCEPT !.pc = "rejected"]
    ELSE IF response.next_cursor
      THEN NextPage(st, response)
      ELSE [NextPage(st, response) EXCEPT !.pc = "resolved"]

InitFetch ==
  /\ tasks = << >>
  /\ DefaultArguments
  /\ pc = "fetch"
  /\ processedTasks = << >>
  /\ filteredTasks = << >>
  /\ dayStats = [threw |-> FALSE, stats |-> << >>]
  /\ allProjectStats = << >>
  /\ projectStats = << >>
  /\ hourStats = << >>
  /\ recapStats = NoRecap
  /\ walk = NoWalk
  /\ login = NoLogin
  /\ \E fn \in {"fetchTodoistCompletedTasks", "fetchCompletedTasks"} :
       fetchState = [fn |-> fn, pc |-> "fetch", retries |-> DefaultRetries,
                     pages |-> 0, odd |-> FALSE, items |-> 0]

\* the variables a fetch leaves alone
FetchFrame ==
  UNCHANGED <<tasks, projects, startDate, endDate, thresholdPercent, minThresholdCount,
              now, pc, processedTasks, filteredTasks, dayStats, allProjectStats,
              projectStats, hourStats, recapStats, walk, login>>

\* the awaited fetch(url) fails in a way fetchWithRetry retries: it waits and
\* calls itself with retries - 1
FetchRetries ==
  /\ fetchState.pc = "fetch"
  /\ \E response \in Responses : Attempt(response, fetchState.retries) = "retry"
  /\ fetchState' = [fetchState EXCEPT !.retries = @ - 1]
  /\ FetchFrame

\* fetchWithRetry rethrows the network error of its last attempt, and the call
\* rejects with it
FetchThrows ==
  /\ fetchState.pc = "fetch"
  /\ \E response \in Responses : Attempt(response, fetchState.retries) = "throw"
  /\ fetchState' = [fetchState EXCEPT !.pc = "rejected"]
  /\ FetchFrame

\* fetchWithRetry returns the response, and the paging loop runs to its next
\* await or to the end of the call
FetchReturns ==
  /\ fetchState.pc = "fetch"
  /\ \E response \in Responses :
       /\ Attempt(response, fetchState.retries) = "return"
       /\ fetchState' = IF fetchState.fn = "fetchTodoistCompletedTasks"
                          THEN OffsetPage(fetchState, response)
                          ELSE CursorPage(fetchState, response)
  /\ FetchFrame

NextFetch == FetchRetries \/ FetchThrows \/ FetchReturns

\* every awaited fetch and timer settles: a pending call takes its next step
SpecFetch == InitFetch /\ [][NextFetch]_vars /\ WF_vars(NextFetch)

(***************************************************************************)
(* fetchWithRetry on its own, in its two versions (src/unnamed/part_001    *)
(* and src/unnamed/part_004). fetchState is [fn, version, pc, given,       *)
(* retries, attempts, delay, response]: given is the retries argument of   *)
(* the outermost call, retries and delay those of the innermost one,       *)
(* attempts the number of fetch(url) calls made, response what the last   *)
(* one ended in; pc is "fetch", then "returned" or "thrown".               *)
(***************************************************************************)
DefaultDelay == 1000

\* no fetch(url) was made yet
NoResponse == [status |-> -1, items |-> 0, next_cursor |-> FALSE]

\* the delay argument of the recursive call: part_004 passes `delay` on after a
\* 429 and delay * 2 otherwise, part_001 always passes delay * 2
RetryDelay(version, response, delay) ==
  IF version = "part_004" /\ response.status = 429 THEN delay ELSE delay * 2

InitRetry ==
  /\ tasks = << >>
  /\ DefaultArguments
  /\ pc = "fetch"
  /\ processedTasks = << >>
  /\ filteredTasks = << >>
  /\ dayStats = [threw |-> FALSE, stats |-> << >>]
  /\ allProjectStats = << >>
  /\ projectStats = << >>
  /\ hourStats = << >>
  /\ recapStats = NoRecap
  /\ walk = NoWalk
  /\ login = NoLogin
  /\ \E version \in {"part_001", "part_004"}, given \in 0..MaxGivenRetries :
       fetchState = [fn |-> "fetchWithRetry", version |-> version, pc |-> "fetch",
                     given |-> given, retries |-> given, attempts |-> 0,
                     delay |-> DefaultDelay, response |-> NoResponse]

\* the awaited fetch(url) ends in a 429, a 5xx or a network error while retries
\* remain: fetchWithRetry waits and calls itself with retries - 1
RetryAgain ==
  /\ fetchState.pc = "fetch" /\ fetchState.fn = "fetchWithRetry"
  /\ \E response \in Responses :
       /\ Attempt(response, fetchState.retries) = "retry"
       /\ fetchState' = [fetchState EXCEPT
                           !.retries = @ - 1,
                           !.attempts = @ + 1,
                           !.delay = RetryDelay(fetchState.version, response, @),
                           !.response = response]
  /\ FetchFrame

\* fetch(url) rejects with no retries left: the error is rethrown
RetryThrows ==
  /\ fetchState.pc = "fetch" /\ fetchState.fn = "fetchWithRetry"
  /\ \E response \in Responses :
       /\ Attempt(response, fetchState.retries) = "throw"
       /\ fetchState' = [fetchState EXCEPT !.pc = "thrown", !.attempts = @ + 1,
                                           !.response = response]
  /\ FetchFrame

\* the response is returned to the caller
RetryReturns ==
  /\ fetchState.pc = "fetch" /\ fetchState.fn = "fetchWithRetry"
  /\ \E response \in Responses :
       /\ Attempt(response, fetchState.retries) = "return"
       /\ fetchState' = [fetchState EXCEPT !.pc = "returned", !.attempts = @ + 1,
                                           !.response = response]
  /\ FetchFrame

NextRetry == RetryAgain \/ RetryThrows \/ RetryReturns

SpecRetry == InitRetry /\ [][NextRetry]_vars

(***************************************************************************)
(* The token-login handler (src/unnamed/part_001, lines 406-436), one step *)
(* per await. login is [pc, method, token, secret, accessToken, calls,     *)
(* cookie, status, body]: token is the `token` of req.body, a string of    *)
(* "a" and " " or no string; secret tells whether TODOIST_SESSION_SECRET   *)
(* is set; calls lists the upstream calls made, each with the token it     *)
(* carried and how it ended; cookie is << >> until Set-Cookie is written   *)
(* and then holds the accessToken sealed in it; status 0 means no response *)
(* was sent.                                                               *)
(***************************************************************************)
MaxTokenLen == 3

\* token.trim() over strings of "a" and " "
RECURSIVE TrimStart(_)
TrimStart(s) == IF s # << >> /\ Head(s) = " " THEN TrimStart(Tail(s)) ELSE s

RECURSIVE TrimEnd(_)
TrimEnd(s) ==
  IF s # << >> /\ s[Len(s)] = " " THEN TrimEnd(SubSeq(s, 1, Len(s) - 1)) ELSE s

Trim(s) == TrimEnd(TrimStart(s))

\* line 415: typeof token !== "string" || token.trim().length === 0
TokenMissing(token) == token.kind # "string" \/ Len(Trim(token.s)) = 0

\* the values `token` can have: undefined (no body, or a body without token), a
\* number, and the strings of up to MaxTokenLen characters
Tokens ==
  {[kind |-> "undefined", s |-> << >>], [kind |-> "number", s |-> << >>]}
  \cup {[kind |-> "string", s |-> s] : s \in SeqsUpTo({"a", " "}, MaxTokenLen)}

\* what an awaited call of the try block can reject with
Errors == {"Error", "TodoistConfigError", "SessionSecretMissingError"}

\* lines 426-435: the status of the catch block
CatchStatus(error) ==
  IF error \in {"SessionSecretMissingError", "TodoistConfigError"} THEN 503 ELSE 401

ErrorBody == [kind |-> "error", profile |-> "none"]

\* an upstream call carrying a token, not settled yet
Call(fn, token) == [fn |-> fn, token |-> token, outcome |-> "pending"]

\* the last call of the list settled with this outcome
Settle(calls, outcome) == [calls EXCEPT ![Len(calls)].outcome = outcome]

InitLogin ==
  /\ tasks = << >>
  /\ DefaultArguments
  /\ pc = "init"
  /\ processedTasks = << >>
  /\ filteredTasks = << >>
  /\ dayStats = [threw |-> FALSE, stats |-> << >>]
  /\ allProjectStats = << >>
  /\ projectStats = << >>
  /\ hourStats = << >>
  /\ recapStats = NoRecap
  /\ walk = NoWalk
  /\ fetchState = NoFetch
  /\ \E method \in {"GET", "PUT", "POST"}, token \in Tokens, secret \in BOOLEAN :
       login = [NoLogin EXCEPT !.pc = "received", !.method = method, !.token = token,
                               !.secret = secret]

\* the variables the handler leaves alone
LoginFrame ==
  UNCHANGED <<tasks, projects, startDate, endDate, thresholdPercent, minThresholdCount,
              now, pc, processedTasks, filteredTasks, dayStats, allProjectStats,
              projectStats, hourStats, recapStats, walk, fetchState>>

\* a handler entry that writes the session cookie before the token is validated
HandlerEntrySetsCookie ==
  /\ login.pc = "received"
  /\ IF login.method # "POST"
       THEN login' = [login EXCEPT !.pc = "responded", !.status = 405, !.body = ErrorBody]
     ELSE IF TokenMissing(login.token)
       THEN login' = [login EXCEPT !.pc = "responded", !.status = 400, !.body = ErrorBody]
     ELSE login' = [login EXCEPT
                      !.pc = "fetchTodoistProjects",
                      !.accessToken = Trim(login.token.s),
                      !.cookie = << Trim(login.token.s) >>,
                      !.calls = Append(@, Call("fetchTodoistProjects", Trim(login.token.s)))]
  /\ LoginFrame

\* lines 407-422: the method and token checks, then the call of
\* fetchTodoistProjects(accessToken)
HandlerEntry ==
  /\ login.pc = "received"
  /\ IF login.method # "POST"
       THEN login' = [login EXCEPT !.pc = "responded", !.status = 405, !.body = ErrorBody]
     ELSE IF TokenMissing(login.token)
       THEN login' = [login EXCEPT !.pc = "responded", !.status = 400, !.body = ErrorBody]
     ELSE login' = [login EXCEPT
                      !.pc = "fetchTodoistProjects",
                      !.accessToken = Trim(login.token.s),
                      !.calls = Append(@, Call("fetchTodoistProjects", Trim(login.token.s)))]
  /\ LoginFrame

\* line 422 rejects: the catch block answers and nothing else is called
ProjectsRejects ==
  /\ login.pc = "fetchTodoistProjects"
  /\ \E error \in {"Error", "TodoistConfigError"} :
       login' = [login EXCEPT !.pc = "responded",
                              !.calls = Settle(@, "rejected"),
                              !.status = CatchStatus(error),
                              !.body = ErrorBody]
  /\ LoginFrame

\* line 422 resolves and line 423 calls createSessionCookie
ProjectsResolves ==
  /\ login.pc = "fetchTodoistProjects"
  /\ login' = [login EXCEPT !.pc = "createSessionCookie", !.calls = Settle(@, "resolved")]
  /\ LoginFrame

\* lines 38-39 and 24-27: getSessionSecret throws when the secret is not set, and
\* the catch block answers
CookieRejects ==
  /\ login.pc = "createSessionCookie"
  /\ ~login.secret
  /\ login' = [login EXCEPT !.pc = "responded",
                            !.status = CatchStatus("SessionSecretMissingError"),
                            !.body = ErrorBody]
  /\ LoginFrame

\* lines 39-53: the payload is sealed and written as Set-Cookie; line 424 then
\* calls fetchTodoistProfile(accessToken)
CookieSet ==
  /\ login.pc = "createSessionCookie"
  /\ login.secret
  /\ login' = [login EXCEPT !.pc = "fetchTodoistProfile",
                            !.cookie = << login.accessToken >>,
                            !.calls = Append(@, Call("fetchTodoistProfile", login.accessToken))]
  /\ LoginFrame

\* lines 424-425: the profile, or null when fetchTodoistProfile rejects, is sent
\* with status 200
ProfileSettles ==
  /\ login.pc = "fetchTodoistProfile"
  /\ \E outcome \in {"resolved", "rejected"} :
       login' = [login EXCEPT
                   !.pc = "responded",
                   !.calls = Settle(@, outcome),
                   !.status = 200,
                   !.body = [kind |-> "success",
                             profile |-> IF outcome = "resolved" THEN "profile" ELSE "null"]]
  /\ LoginFrame

NextLogin ==
  \/ HandlerEntry
  \/ ProjectsRejects
  \/ ProjectsResolves
  \/ CookieRejects
  \/ CookieSet
  \/ ProfileSettles

SpecLogin == InitLogin /\ [][NextLogin]_vars

(***************************************************************************)
(* The dashboard: Index.tsx renders the memo chain from its state, and a   *)
(* fetch may deliver one more task whose completed_at does not parse       *)
(***************************************************************************)
PipelineIds == {Id(<<"p1">>), Id(<<"ghost">>)}

InitPipeline ==
  /\ \E shapes \in SeqsUpTo({Iso(d * 24 + 10) : d \in Days} \X PipelineIds, MaxTasks) :
       tasks = MkTasks(shapes)
  /\ projects = << Work >>
  /\ startDate \in {NullDate, DateAt((BaseDay + 1) * 24)}
  /\ endDate \in {NullDate, DateAt((BaseDay + MaxDay) * 24)}
  /\ thresholdPercent = DefaultThresholdPercent
  /\ minThresholdCount = DefaultMinThresholdCount
  /\ now \in {DateAt((BaseDay + MaxDay) * 24 + 12), DateAt((BaseDay + MaxDay + 1) * 24 + 12)}
  /\ pc = "init"
  /\ processedTasks = << >>
  /\ Idle

\* one render: every memo recomputed from tasks, projects and dateRange
Rendered(ts) ==
  LET processed == processTasks(ts)
      filtered  == FilterTasks(processed, startDate, endDate)
      days      == DayStatsMemo(filtered, startDate, endDate, now)
      projs     == calculateProjectStats(filtered, projects,
                                         DefaultThresholdPercent, DefaultMinThresholdCount)
  IN /\ processedTasks' = processed
     /\ filteredTasks' = filtered
     /\ dayStats' = days
     /\ allProjectStats' = FirstPass(<< >>, filtered, projects)
     /\ projectStats' = projs
     /\ hourStats' = calculateHourStats(filtered)
     /\ recapStats' = calculateRecapStats(days.stats, projs, now)

Render ==
  /\ pc = "init"
  /\ pc' = "render"
  /\ Rendered(tasks)
  /\ UNCHANGED <<walk, fetchState, login>>
  /\ UNCHANGED <<tasks, projects, startDate, endDate, thresholdPercent, minThresholdCount, now>>

\* setTasks with one more task, completed_at "not-a-date", at any position
AddInvalidTask ==
  /\ pc = "render"
  /\ \E i \in 1..(Len(tasks) + 1) :
       LET bad == [id |-> Len(tasks) + 1, completed_at |-> NotADate,
                   project_id |-> Id(<<"ghost">>)]
           ts  == SubSeq(tasks, 1, i - 1) \o <<bad>> \o SubSeq(tasks, i, Len(tasks))
       IN /\ tasks' = ts
          /\ Rendered(ts)
  /\ pc' = "rerender"
  /\ UNCHANGED <<walk, fetchState, login>>
  /\ UNCHANGED <<projects, startDate, endDate, thresholdPercent, minThresholdCount, now>>

Next == Render \/ AddInvalidTask

Spec == InitPipeline /\ [][Next]_vars

(***************************************************************************)
(* One render of the memo chain for every dateRange whose ends are dates,  *)
(* each at midnight or at noon of its day                                  *)
(***************************************************************************)
InitTotals ==
  /\ \E shapes \in SeqsUpTo({Iso(d * 24 + 10) : d \in Days} \X PipelineIds, MaxTasks) :
       tasks = MkTasks(shapes)
  /\ projects = << Work >>
  /\ startDate \in {DateAt(d * 24 + h) : d \in Days, h \in {0, 12}}
  /\ endDate \in {DateAt(d * 24 + h) : d \in Days, h \in {0, 12}}
  /\ thresholdPercent = DefaultThresholdPercent
  /\ minThresholdCount = DefaultMinThresholdCount
  /\ now = DateAt((BaseDay + MaxDay) * 24 + 12)
  /\ pc = "init"
  /\ processedTasks = << >>
  /\ Idle

NextTotals == Render

SpecTotals == InitTotals /\ [][NextTotals]_vars

(***************************************************************************)
(* Properties                                                              *)
(***************************************************************************)
OtherProjectsId == <<"other-projects">>

\* the calendar day, in days since 1970-01-01, a valid date falls on
CalendarDay(d) == d.t \div 24

\* the range (startDate, endDate) is valid: two valid dates, start not after end
ValidRange ==
  /\ startDate.kind = "date" /\ endDate.kind = "date"
  /\ startDate.t <= endDate.t

\* the indices of the normalized tasks completed on a day of the range
InRangeTasks ==
  {i \in 1..Len(processedTasks) :
     /\ CalendarDay(startDate) <= CalendarDay(processedTasks[i].completedDate)
     /\ CalendarDay(processedTasks[i].completedDate) <= CalendarDay(endDate)}

\* C1 (density): for a valid range calculateDayStats returns, whatever the
\* tasks, exactly one bucket per calendar day from day(start) to day(end):
\* daysBetween + 1 buckets, the i-th for the i-th day, strictly ascending.
C1_Density ==
  (pc = "calculateDayStats" /\ ValidRange) =>
     /\ ~dayStats.threw
     /\ Len(dayStats.stats) = CalendarDay(endDate) - CalendarDay(startDate) + 1
     /\ \A i \in 1..Len(dayStats.stats) :
          dayStats.stats[i].date = CivilFromDays(CalendarDay(startDate) + (i - 1) + 719468)
     /\ \A i, j \in 1..Len(dayStats.stats) :
          i < j => /\ dayStats.stats[i].date # dayStats.stats[j].date
                   /\ DateKeyLeq(dayStats.stats[i].date, dayStats.stats[j].date)

\* a range of all explored days with a task given, across the turn of the year
C1_Witness ==
  /\ pc = "calculateDayStats" /\ ValidRange
  /\ Len(processedTasks) = MaxTasks
  /\ Len(dayStats.stats) = MaxDay + 1
  /\ dayStats.stats[1].date = <<2023, 12, 30>>
  /\ dayStats.stats[3].date = <<2024, 1, 1>>

\* C2 (day conservation): for a valid range the bucket counts sum to the number of
\* tasks completed on a day of the range, and no bucket holds a task completed
\* on a day outside it.
C2_DayConservation ==
  (pc = "calculateDayStats" /\ ValidRange) =>
     /\ SumCounts(dayStats.stats) = Cardinality(InRangeTasks)
     /\ \A b \in 1..Len(dayStats.stats) : \A k \in 1..Len(dayStats.stats[b].tasks) :
          \E i \in InRangeTasks : processedTasks[i] = dayStats.stats[b].tasks[k]

\* one task inside the range, completed at 23:00 of its last day, and one outside
C2_Witness ==
  /\ pc = "calculateDayStats" /\ ValidRange
  /\ Len(processedTasks) = 2
  /\ Cardinality(InRangeTasks) = 1
  /\ \E i \in InRangeTasks :
       /\ CalendarDay(processedTasks[i].completedDate) = CalendarDay(endDate)
       /\ processedTasks[i].hour = 23
  /\ SumCounts(dayStats.stats) = 1

\* C3 (invalid range): with start or end missing or not a valid date, or start
\* strictly after end, calculateDayStats returns no bucket and does not throw.
C3_InvalidRange ==
  (pc = "calculateDayStats" /\ ~ValidRange) =>
     /\ ~dayStats.threw
     /\ dayStats.stats = << >>

\* start later than end on one calendar day, with tasks completed that day
C3_Witness ==
  /\ pc = "calculateDayStats"
  /\ startDate.kind = "date" /\ endDate.kind = "date"
  /\ startDate.t > endDate.t
  /\ CalendarDay(startDate) = CalendarDay(endDate)
  /\ \E i \in 1..Len(processedTasks) :
       CalendarDay(processedTasks[i].completedDate) = CalendarDay(startDate)
  /\ dayStats.stats = << >>

\* the threshold of the folding rule, from the call's arguments
FoldThreshold ==
  LET share == (Len(processedTasks) * thresholdPercent[1]) \div thresholdPercent[2]
      least == IF minThresholdCount < share THEN minThresholdCount ELSE share
  IN IF least < 1 THEN 1 ELSE least

\* the first-pass buckets the folding rule folds into "other-projects"
FoldedBuckets ==
  {i \in 1..Len(allProjectStats) :
     /\ allProjectStats[i].projectId # noProjectId
     /\ allProjectStats[i].count < FoldThreshold}

RECURSIVE SumOver(_, _)
SumOver(I, s) ==
  IF I = {} THEN 0
  ELSE LET i == CHOOSE i \in I : TRUE IN s[i].count + SumOver(I \ {i}, s)

\* C4 (project conservation): the first-pass bucket counts sum to the number of
\* tasks, the returned bucket counts sum to the same number, and every returned
\* bucket has count > 0.
C4_ProjectConservation ==
  pc = "calculateProjectStats" =>
     /\ SumCounts(allProjectStats) = Len(processedTasks)
     /\ SumCounts(projectStats) = Len(processedTasks)
     /\ \A i \in 1..Len(projectStats) : projectStats[i].count > 0

\* two buckets, one of them of two tasks, folded into "other-projects"
C4_Witness ==
  /\ pc = "calculateProjectStats"
  /\ Cardinality(FoldedBuckets) = 2
  /\ \E i \in FoldedBuckets : allProjectStats[i].count = 2
  /\ \E j \in 1..Len(projectStats) :
       projectStats[j].projectId = OtherProjectsId /\ projectStats[j].count = 3

ExpectedKey(task) ==
  IF ~task.project_id.defined \/ task.project_id.s = << >>
    THEN <<"no-project">>
  ELSE IF \A i \in 1..Len(projects) : projects[i].id # task.project_id.s
    THEN <<"unknown-">> \o task.project_id.s
  ELSE task.project_id.s

ExpectedNames(task) ==
  IF ~task.project_id.defined \/ task.project_id.s = << >>
    THEN {<<"No Project">>}
  ELSE IF \A i \in 1..Len(projects) : projects[i].id # task.project_id.s
    THEN {<<"Unknown/Archived (">> \o task.project_id.s \o <<")">>}
  ELSE {IF projects[i].name # << >> THEN projects[i].name
        ELSE <<"Unnamed Project ">> \o projects[i].id :
          i \in {k \in 1..Len(projects) : projects[k].id = task.project_id.s}}

\* C6 (project key classification): every task is counted under exactly one
\* first-pass key: "no-project" for an empty or missing projectId,
\* "unknown-<id>" for an id absent from the project list, else the id itself,
\* with the matching name; no task is dropped.
C6_KeyClassification ==
  pc = "calculateProjectStats" =>
     /\ \A i \in 1..Len(allProjectStats) :
          /\ allProjectStats[i].count =
               Cardinality({k \in 1..Len(processedTasks) :
                              ExpectedKey(processedTasks[k]) = allProjectStats[i].projectId})
          /\ \A k \in 1..Len(processedTasks) :
               ExpectedKey(processedTasks[k]) = allProjectStats[i].projectId =>
                  allProjectStats[i].projectName \in ExpectedNames(processedTasks[k])
     /\ \A k \in 1..Len(processedTasks) :
          Cardinality({i \in 1..Len(allProjectStats) :
                         allProjectStats[i].projectId = ExpectedKey(processedTasks[k])}) = 1

\* Scenario E next to a task without project, a known and an unnamed project
C6_Witness ==
  /\ pc = "calculateProjectStats"
  /\ \E i \in 1..Len(allProjectStats) :
       /\ allProjectStats[i].projectId = <<"unknown-", "ghost">>
       /\ allProjectStats[i].projectName = <<"Unknown/Archived (", "ghost", ")">>
  /\ \E i \in 1..Len(allProjectStats) :
       /\ allProjectStats[i].projectId = <<"p2">>
       /\ allProjectStats[i].projectName = <<"Unnamed Project ", "p2">>
  /\ \E i \in 1..Len(allProjectStats) : allProjectStats[i].projectId = <<"p1">>
  /\ \E i \in 1..Len(allProjectStats) : allProjectStats[i].projectId = noProjectId
  /\ \E k \in 1..Len(processedTasks) : ~processedTasks[k].project_id.defined

\* C7 (project output ordering): the returned buckets, "other-projects" and
\* "no-project" included, are in non-increasing order of count, so the first
\* has the maximum count.
C7_ProjectOrdering ==
  pc = "calculateProjectStats" =>
     /\ \A i, j \in 1..Len(projectStats) :
          i < j => projectStats[i].count >= projectStats[j].count
     /\ \A j \in 1..Len(projectStats) : projectStats[1].count >= projectStats[j].count

\* the largest bucket was counted last; "other-projects" and "no-project" follow it
C7_Witness ==
  /\ pc = "calculateProjectStats"
  /\ Len(projectStats) = 3
  /\ allProjectStats[Len(allProjectStats)] = projectStats[1]
  /\ projectStats[1].count = 2
  /\ {projectStats[2].projectId, projectStats[3].projectId} = {OtherProjectsId, noProjectId}

\* C8 (hour completeness): calculateHourStats returns 24 buckets, the i-th for
\* hour i - 1, whatever the tasks; for no task every count is 0.
C8_HourCompleteness ==
  pc = "calculateHourStats" =>
     /\ Len(hourStats) = 24
     /\ \A i \in 1..Len(hourStats) : hourStats[i].hour = i - 1
     /\ processedTasks = << >> => \A i \in 1..Len(hourStats) : hourStats[i].count = 0

\* tasks in the first and the last hour of the day
C8_Witness ==
  /\ pc = "calculateHourStats"
  /\ Len(processedTasks) = 2
  /\ Len(hourStats) = 24
  /\ hourStats[1].count = 1
  /\ hourStats[24].count = 1

\* the completed_at value is present, non-empty and an ISO-8601 date
Parses(task) == task.completed_at.kind = "iso"

\* C9 (normalizer filter): processTasks returns exactly the input tasks whose
\* completed_at is present, non-empty and parses, in input order, each with the
\* parsed instant and its hour of day.
C9_NormalizerFilter ==
  pc = "processTasks" =>
     LET kept == SelectSeq(tasks, Parses)
     IN /\ Len(processedTasks) = Len(kept)
        /\ \A i \in 1..Len(processedTasks) :
             /\ processedTasks[i].id = kept[i].id
             /\ processedTasks[i].completed_at = kept[i].completed_at
             /\ processedTasks[i].project_id = kept[i].project_id
             /\ processedTasks[i].completedDate = DateAt(kept[i].completed_at.t)
             /\ processedTasks[i].hour = kept[i].completed_at.t % 24

\* "not-a-date" ahead of a task that parses: only the second is returned
C9_Witness ==
  /\ pc = "processTasks"
  /\ Len(tasks) = 2
  /\ tasks[1].completed_at = NotADate
  /\ Parses(tasks[2])
  /\ Len(processedTasks) = 1
  /\ processedTasks[1].id = 2

\* C10 (an invalid task is invisible downstream): a render after the raw tasks
\* gained a task whose completed_at is "not-a-date" yields the same normalized
\* and filtered tasks, day, project and hour buckets and recap as the render
\* before it.
C10_InvalidTaskInvisible ==
  [][pc' = "rerender" =>
       /\ processedTasks' = processedTasks
       /\ filteredTasks' = filteredTasks
       /\ dayStats' = dayStats
       /\ allProjectStats' = allProjectStats
       /\ projectStats' = projectStats
       /\ hourStats' = hourStats
       /\ recapStats' = recapStats]_vars

\* the invalid task was added to tasks that fill day, project and hour buckets
C10_Witness ==
  /\ pc = "rerender"
  /\ Len(tasks) = MaxTasks + 1
  /\ Len(filteredTasks) = MaxTasks
  /\ dayStats.stats # << >>
  /\ recapStats.totalDone = MaxTasks
  /\ recapStats.currentStreak > 0
  /\ Len(projectStats) = 2

\* the dates of the buckets, in order
BucketDates(ds) == [i \in 1..Len(ds) |-> ds[i].date]

\* the buckets calculateRecapStats was called with, and today's date
RecapCalled == pc = "calculateRecapStats"
Today == format(now)

\* C11 (recap total): totalDone is the sum of the counts of the day buckets, and
\* 0 when there is none.
C11_RecapTotal ==
  RecapCalled =>
    /\ recapStats.totalDone = SumOver(1..Len(dayStats.stats), dayStats.stats)
    /\ dayStats.stats = << >> => recapStats.totalDone = 0

\* three buckets holding 2, 0 and 1 tasks
C11_Witness ==
  /\ RecapCalled
  /\ Len(dayStats.stats) = 3
  /\ dayStats.stats[1].count = 2 /\ dayStats.stats[2].count = 0 /\ dayStats.stats[3].count = 1
  /\ recapStats.totalDone = 3

\* the positions of the buckets with the largest count
MaxCountBuckets(ds) == {i \in 1..Len(ds) : \A j \in 1..Len(ds) : ds[j].count <= ds[i].count}

\* C12 (best day): bestDay is the bucket with the maximum count, the earliest of
\* them in ascending-date order on a tie, and {today's date, 0} only when there
\* is no bucket: for a non-empty dayStats, every count 0 included, bestDay.date
\* is the date of a bucket.
C12_BestDay ==
  RecapCalled =>
    IF dayStats.stats = << >>
      THEN recapStats.bestDay = [date |-> Today, count |-> 0]
      ELSE LET first == CHOOSE i \in MaxCountBuckets(dayStats.stats) :
                          \A j \in MaxCountBuckets(dayStats.stats) : i <= j
           IN recapStats.bestDay = [date  |-> dayStats.stats[first].date,
                                    count |-> dayStats.stats[first].count]

\* C13 (top project): topProject is the name and count of the first project
\* bucket, and {"N/A", 0} when there is no project bucket.
C13_TopProject ==
  RecapCalled =>
    recapStats.topProject =
      IF projectStats = << >> THEN [name |-> <<"N/A">>, count |-> 0]
      ELSE [name |-> projectStats[1].projectName, count |-> projectStats[1].count]

\* two project buckets, the first one "Work" with two tasks
C13_Witness ==
  /\ RecapCalled
  /\ Len(projectStats) = 2
  /\ projectStats[1].projectName = <<"Work">> /\ projectStats[1].count = 2
  /\ projectStats[2].count = 1
  /\ recapStats.topProject = [name |-> <<"Work">>, count |-> 2]

\* dayMap.get of the day n days before today: << >> or <<count>>
CountOn(n) == DayMapGet(dayStats.stats, format(DateAt((DayOf(now) - n) * 24)))

\* the day the walk is about to examine, in days before today
DaysBack == DayOf(now) - DayOf(walk.currentDate)

\* the iteration went on to the previous day and left the streak as it was
WalkSkips ==
  /\ pc' = "loop"
  /\ walk'.currentDate = AddDays(walk.currentDate, -1)
  /\ walk'.currentStreak = walk.currentStreak

\* the iteration ended the walk and left the streak as it was
WalkStops == pc' = "done" /\ walk'.currentStreak = walk.currentStreak

\* the loop run one iteration at a time ends with the streak that
\* calculateRecapStats returns
StreakLoopAgrees ==
  pc = "done" /\ Len(dayStats.stats) <= RecapMaxLen =>
    walk.currentStreak = calculateRecapStats(dayStats.stats, projectStats, now).currentStreak

\* C14 (streak, present-zero rule): in the backward walk a day present with count
\* 0 stops the walk when it is a past day and is skipped when it is today; so
\* today > 0 with yesterday = 0 gives a streak of 1, and today = 0 with the k
\* preceding days > 0 followed by a present zero day gives a streak of k.
C14_PresentZero ==
  [][ /\ pc = "loop" /\ CountOn(DaysBack) = <<0>> =>
           IF DaysBack = 0 THEN WalkSkips ELSE WalkStops
      /\ pc = "loop" /\ pc' = "done" =>
           /\ CountOn(0) # << >> /\ CountOn(0) # <<0>> /\ CountOn(1) = <<0>> =>
                walk'.currentStreak = 1
           /\ \A k \in 0..RecapMaxLen :
                /\ CountOn(0) = <<0>>
                /\ \A j \in 1..k : CountOn(j) # << >> /\ CountOn(j) # <<0>>
                /\ CountOn(k + 1) = <<0>>
                => walk'.currentStreak = k ]_vars

\* today has no task yet, the two days before it have one each, the day before
\* those has none: the walk ended with a streak of 2
C14_Witness ==
  /\ pc = "done"
  /\ CountOn(0) = <<0>> /\ CountOn(1) = <<1>> /\ CountOn(2) = <<1>> /\ CountOn(3) = <<0>>
  /\ DaysBack = 3
  /\ walk.currentStreak = 2

\* dayStats is one bucket per day from `first` to `last` days before today, each
\* with count > 0
CoversOnly(first, last) ==
  /\ Len(dayStats.stats) = first - last + 1
  /\ \A i \in 1..Len(dayStats.stats) :
       /\ dayStats.stats[i].date = format(DateAt((DayOf(now) - first + i - 1) * 24))
       /\ dayStats.stats[i].count > 0

\* C15 (streak, missing-day rule): a day absent from dayStats stops the walk when
\* it is strictly before the earliest bucket date or when currentStreak > 0; else
\* the walk goes on to the previous day, up to the safety bound of the walk. So
\* for buckets covering only [today-10, today-5], all > 0, the absent days
\* today .. today-4 are skipped and the streak is 6.
C15_MissingDay ==
  [][ /\ pc = "loop" /\ CountOn(DaysBack) = << >> =>
           IF \/ ~IsNullDate(walk.earliestDate) /\ walk.currentDate.t < walk.earliestDate.t
              \/ walk.currentStreak > 0
             THEN WalkStops
             ELSE WalkSkips \/ (WalkStops /\ DaysBack = StreakMaxDays)
      /\ pc = "loop" /\ pc' = "done" =>
           \A first \in 1..(RecapMaxLen + RecapMaxGap), last \in 1..RecapMaxGap :
             first >= last /\ CoversOnly(first, last) =>
               walk'.currentStreak = first - last + 1 ]_vars

\* buckets for today-10 .. today-5 only, one task each: the walk ended on the
\* absent day today-11 with a streak of 6
C15_Witness ==
  /\ pc = "done"
  /\ CoversOnly(10, 5)
  /\ DaysBack = 11
  /\ walk.currentStreak = 6

\* C16 (streak termination): for every dayStats, one with a task on every day for
\* years included, the backward walk ends: each iteration either ends it or
\* moves one day back, and the walk ends unconditionally instead of moving to a
\* day more than 730 days before today, so no such day is ever examined and
\* the walk has at most 731 iterations.
C16_WalkTerminates ==
  [][ /\ pc = "init" /\ pc' = "loop" => DaysBack' = 0
      /\ pc = "loop" =>
           /\ DaysBack \in 0..StreakMaxDays
           /\ \/ pc' = "done"
              \/ pc' = "loop" /\ DaysBack' = DaysBack + 1 /\ DaysBack' <= StreakMaxDays
           /\ DaysBack = StreakMaxDays => pc' = "done" ]_vars

\* a task on each of the last LongRunDays days: the walk ended by the safety
\* bound on the day 730 days before today, with a streak of 731
C16_Witness ==
  /\ pc = "done"
  /\ Len(dayStats.stats) = LongRunDays
  /\ DaysBack = StreakMaxDays
  /\ walk.currentStreak = StreakMaxDays + 1

C19_FetchSettles == <>(fetchState.pc \in {"resolved", "rejected"})

\* the pairs <<b, k>> at which the returned buckets hold the i-th normalized task
PlacesOf(i) ==
  {<<b, k>> \in (1..Len(dayStats.stats)) \X (1..Len(processedTasks)) :
     /\ k <= Len(dayStats.stats[b].tasks)
     /\ dayStats.stats[b].tasks[k] = processedTasks[i]}

\* C20 (day bucket contents): in every bucket calculateDayStats returns, count is
\* the length of tasks and every task was completed on the bucket's calendar
\* day; every input task of the range is in exactly one bucket, once; and the
\* tasks of a bucket are in their input order.
C20_BucketContents ==
  pc = "calculateDayStats" =>
    /\ \A b \in 1..Len(dayStats.stats) :
         LET bucket == dayStats.stats[b]
         IN /\ bucket.count = Len(bucket.tasks)
            /\ \A k \in 1..Len(bucket.tasks) :
                 format(DateAt(CalendarDay(bucket.tasks[k].completedDate) * 24)) = bucket.date
            /\ \A k, l \in 1..Len(bucket.tasks) :
                 k < l => bucket.tasks[k].id < bucket.tasks[l].id
    /\ ValidRange => \A i \in InRangeTasks : Cardinality(PlacesOf(i)) = 1

\* two tasks completed at 00:00 and 23:00 of one day of the range: its bucket
\* holds both, the first given first
C20_Witness ==
  /\ pc = "calculateDayStats" /\ ValidRange
  /\ Cardinality(InRangeTasks) = 2
  /\ \E b \in 1..Len(dayStats.stats) :
       /\ dayStats.stats[b].count = 2
       /\ dayStats.stats[b].tasks = processedTasks
       /\ processedTasks[1].hour = 23 /\ processedTasks[2].hour = 0

\* the positions of the tasks given to calculateHourStats whose hour is h
TasksOfHour(h) == {i \in 1..Len(processedTasks) : processedTasks[i].hour = h}

\* C21 (hour counting): for every hour h in 0..23 the count of bucket h is the
\* number of tasks given whose hour is h; a task whose hour is not a number in
\* [0, 23] is counted in no bucket, so the 24 counts sum to the number of
\* tasks with a valid hour.
C21_HourCounting ==
  pc = "calculateHourStats" =>
    /\ Len(hourStats) = 24
    /\ \A h \in 0..23 : hourStats[h + 1].count = Cardinality(TasksOfHour(h))
    /\ SumOver(1..Len(hourStats), hourStats)
         = Cardinality(UNION {TasksOfHour(h) : h \in 0..23})

\* a task with hour 24 and a task with hour 9: only the second is counted
C21_Witness ==
  /\ pc = "calculateHourStats"
  /\ Len(processedTasks) = 2
  /\ processedTasks[1].hour = 24 /\ processedTasks[2].hour = 9
  /\ Len(hourStats) = 24
  /\ hourStats[10].count = 1
  /\ SumOver(1..Len(hourStats), hourStats) = 1

\* the first-pass bucket i is not among the returned buckets: it was grouped
GroupedIntoOther(i) ==
  ~ \E j \in 1..Len(projectStats) : projectStats[j] = allProjectStats[i]

\* C22 (the parameter comments): with the default parameters every project
\* bucket other than "no-project" that holds less than 2% of all tasks is
\* grouped into "Other", and every such bucket with fewer than 5 tasks is
\* grouped into "Other".
C22_CommentedDefaults ==
  (/\ pc = "calculateProjectStats"
   /\ thresholdPercent = DefaultThresholdPercent
   /\ minThresholdCount = DefaultMinThresholdCount) =>
    \A i \in 1..Len(allProjectStats) :
      allProjectStats[i].projectId # noProjectId =>
        /\ allProjectStats[i].count * 100 < 2 * Len(processedTasks) => GroupedIntoOther(i)
        /\ allProjectStats[i].count < DefaultMinThresholdCount => GroupedIntoOther(i)

\* the statuses fetchWithRetry retries on; 0 stands for a network error
Retryable(response) == response.status = 0 \/ response.status = 429 \/ response.status >= 500

\* C23 (fetchWithRetry attempts): fetchWithRetry makes at most retries + 1 fetch
\* attempts and then completes; it retries only after a 429, a 5xx or a network
\* error while retries remain; any other response is returned after the
\* attempt that produced it; with the retries used up it returns the last
\* 429/5xx response or rethrows the last network error.
C23_RetryAttempts ==
  [][ fetchState.pc = "fetch" =>
        LET last == fetchState'.response
        IN /\ fetchState'.attempts = fetchState.attempts + 1
           /\ fetchState'.attempts <= fetchState.given + 1
           /\ fetchState'.attempts + fetchState'.retries =
                fetchState.given + (IF fetchState'.pc = "fetch" THEN 0 ELSE 1)
           /\ fetchState'.pc = "fetch" <=> (Retryable(last) /\ fetchState.retries > 0)
           /\ fetchState'.pc = "returned" <=>
                (last.status # 0 /\ (Retryable(last) => fetchState.retries = 0))
           /\ fetchState'.pc = "thrown" <=> (last.status = 0 /\ fetchState.retries = 0)
           /\ fetchState'.pc # "fetch" /\ Retryable(last) =>
                fetchState'.attempts = fetchState.given + 1 ]_vars

\* the default retries = 3: the fourth attempt failed like the three before it,
\* and the network error was rethrown
C23_Witness ==
  /\ fetchState.fn = "fetchWithRetry"
  /\ fetchState.pc = "thrown"
  /\ fetchState.given = DefaultRetries
  /\ fetchState.attempts = DefaultRetries + 1
  /\ fetchState.response.status = 0

Reserved(id) ==
  id = noProjectId \/ id = OtherProjectsId \/ (id # << >> /\ Head(id) = "unknown-")

NoReservedIds ==
  /\ \A i \in 1..Len(projects) : ~Reserved(projects[i].id)
  /\ \A k \in 1..Len(processedTasks) : ~Reserved(processedTasks[k].project_id.s)

\* the classification of a task: no project, a project of the list, an unknown one
KindOf(task) ==
  IF ~task.project_id.defined \/ task.project_id.s = << >> THEN "none"
  ELSE IF \E i \in 1..Len(projects) : projects[i].id = task.project_id.s THEN "real"
  ELSE "unknown"

\* C25 (distinct keys): when no supplied project id is "no-project",
\* "other-projects" or begins with "unknown-", the returned buckets have
\* pairwise distinct projectId keys, and so have the first-pass buckets, none
\* of which counts tasks of two classifications (real project, unknown
\* project, no project).
C25_DistinctKeys ==
  (pc = "calculateProjectStats" /\ NoReservedIds) =>
    /\ \A i, j \in 1..Len(projectStats) :
         i # j => projectStats[i].projectId # projectStats[j].projectId
    /\ \A i, j \in 1..Len(allProjectStats) :
         i # j => allProjectStats[i].projectId # allProjectStats[j].projectId
    /\ \A i \in 1..Len(allProjectStats) :
         LET members == {k \in 1..Len(processedTasks) :
                           Classify(processedTasks[k], projects).key
                             = allProjectStats[i].projectId}
         IN /\ allProjectStats[i].count = Cardinality(members)
            /\ \A a, b \in members : KindOf(processedTasks[a]) = KindOf(processedTasks[b])

\* four tasks: none, a real and an unknown project, the real one twice; three
\* first-pass buckets, and "other-projects" and "no-project" among those returned
C25_Witness ==
  /\ pc = "calculateProjectStats" /\ NoReservedIds
  /\ Len(processedTasks) = 4
  /\ {KindOf(processedTasks[k]) : k \in 1..4} = {"none", "real", "unknown"}
  /\ Len(allProjectStats) = 3
  /\ \E j \in 1..Len(projectStats) : projectStats[j].projectId = OtherProjectsId
  /\ \E j \in 1..Len(projectStats) : projectStats[j].projectId = noProjectId

\* the day n days before today has a bucket with count > 0
PositiveOn(n) == CountOn(n) # << >> /\ CountOn(n)[1] > 0

\* C26 (streak bounds): for day buckets with distinct dates the streak is >= 0, at
\* most the number of buckets with count > 0, at most totalDone and at most
\* 731; the days it counts are consecutive calendar days, none later than
\* today, each present with count > 0.
C26_StreakBounds ==
  pc = "done" =>
    LET streak == walk.currentStreak
    IN /\ streak >= 0
       /\ streak <= Cardinality({i \in 1..Len(dayStats.stats) : dayStats.stats[i].count > 0})
       /\ streak <= TotalDone(dayStats.stats)
       /\ streak <= StreakMaxDays + 1
       /\ \E n \in 0..StreakMaxDays : \A j \in n..(n + streak - 1) : PositiveOn(j)

\* today has no task yet, the two days before it have, the day before them has
\* no bucket and the one before that has a task: a streak of 2 from 3 tasks
C26_Witness ==
  /\ pc = "done"
  /\ CountOn(0) = <<0>> /\ PositiveOn(1) /\ PositiveOn(2)
  /\ CountOn(3) = << >> /\ PositiveOn(4)
  /\ Len(dayStats.stats) = 4
  /\ walk.currentStreak = 2

\* dayStats is what calculateDayStats returns for a range that holds today: one
\* bucket for each day from its first to its last, today among them
DenseWithToday ==
  LET ds == dayStats.stats
  IN /\ Len(ds) > 0
     /\ \A i \in 1..Len(ds) : Len(ds[i].date) = 3
     /\ \A i \in 1..(Len(ds) - 1) :
          ds[i + 1].date = format(AddDays(ParseDateKey(ds[i].date), 1))
     /\ CountOn(0) # << >>

\* the number of consecutive days with count > 0 going back from the day n days
\* before today, no further back than the last day the walk examines
RunFrom(n) ==
  LET last  == Min2(StreakMaxDays, n + Len(dayStats.stats)) + 1
      stops == {k \in n..last : k > StreakMaxDays \/ ~PositiveOn(k)}
  IN (CHOOSE k \in stops : \A j \in stops : k <= j) - n

\* C27 (streak is current on dense data): for the dense day buckets of a range
\* that holds today, a streak > 0 means today or yesterday has count > 0, and the
\* streak is the length of the maximal run of consecutive count > 0 days ending
\* at today, or at yesterday when today has count 0, cut at the range start and at
\* the 730-day bound.
C27_StreakIsCurrent ==
  (pc = "done" /\ DenseWithToday) =>
    /\ walk.currentStreak > 0 => PositiveOn(0) \/ PositiveOn(1)
    /\ walk.currentStreak = IF PositiveOn(0) THEN RunFrom(0) ELSE RunFrom(1)

\* a range from two days ago to tomorrow: nothing done today yet, a task on each
\* of the two days before, and one due tomorrow already completed
C27_Witness ==
  /\ pc = "done"
  /\ DenseWithToday
  /\ Len(dayStats.stats) = 4
  /\ PositiveOn(-1) /\ CountOn(0) = <<0>> /\ PositiveOn(1) /\ PositiveOn(2)
  /\ CountOn(3) = << >>
  /\ walk.currentStreak = 2

\* every task passed on by the filteredTasks memo was completed on a day from
\* the day of dateRange.from to the day of dateRange.to
FilteredInsideRange ==
  /\ UsableDate(startDate) /\ UsableDate(endDate)
  /\ \A i \in 1..Len(filteredTasks) :
       /\ DayOf(filteredTasks[i].completedDate) >= DayOf(startDate)
       /\ DayOf(filteredTasks[i].completedDate) <= DayOf(endDate)

\* the conclusion of C28 for the buckets of the last render
TotalsAgree ==
  LET n == Len(filteredTasks)
  IN /\ SumCounts(dayStats.stats) = n
     /\ SumCounts(projectStats) = n
     /\ SumCounts(hourStats) = n
     /\ recapStats.totalDone = SumCounts(projectStats)
     /\ recapStats.topProject.count <= recapStats.totalDone

C29_RangeByInstant ==
  (pc = "calculateDayStats" /\ startDate.kind = "date" /\ endDate.kind = "date") =>
    LET byDay == calculateDayStats(processedTasks, startOfDay(startDate), startOfDay(endDate))
    IN /\ ~isAfter(startDate, endDate) => dayStats = byDay
       /\ (CalendarDay(startDate) = CalendarDay(endDate) /\ startDate.t % 24 > endDate.t % 24) =>
            /\ ~dayStats.threw
            /\ dayStats.stats = << >>
            /\ BucketDates(byDay.stats) = << format(startDate) >>

\* from noon to midnight of the day every task given was completed on
C29_Witness ==
  /\ pc = "calculateDayStats"
  /\ startDate.kind = "date" /\ endDate.kind = "date"
  /\ CalendarDay(startDate) = CalendarDay(endDate)
  /\ startDate.t % 24 = 12 /\ endDate.t % 24 = 0
  /\ Len(processedTasks) = MaxTasks
  /\ \A i \in 1..Len(processedTasks) :
       CalendarDay(processedTasks[i].completedDate) = CalendarDay(startDate)
  /\ dayStats.stats = << >>
  /\ SumCounts(calculateDayStats(processedTasks, endDate, startDate).stats) = MaxTasks

\* in the request l, fetchTodoistProjects resolved for the token of its cookie
Validated(l) ==
  \E i \in 1..Len(l.calls) :
    l.calls[i] = [fn |-> "fetchTodoistProjects", token |-> l.accessToken,
                  outcome |-> "resolved"]

\* fetchTodoistProjects was called and rejected
ValidationFailed(l) ==
  \E i \in 1..Len(l.calls) :
    l.calls[i].fn = "fetchTodoistProjects" /\ l.calls[i].outcome = "rejected"

\* fetchTodoistProfile was called and rejected
ProfileFailed(l) ==
  \E i \in 1..Len(l.calls) :
    l.calls[i].fn = "fetchTodoistProfile" /\ l.calls[i].outcome = "rejected"

\* what C30 says of the request l as a step leaves it
LoginOrdered(l) ==
  /\ l.cookie # << >> => l.cookie = << l.accessToken >> /\ Validated(l)
  /\ l.pc = "responded" =>
       /\ ValidationFailed(l) => l.status \in {401, 503} /\ l.cookie = << >>
       /\ Validated(l) /\ ~l.secret => l.status = 503 /\ l.cookie = << >>
       /\ ProfileFailed(l) =>
            /\ l.status = 200
            /\ l.body = [kind |-> "success", profile |-> "null"]
            /\ l.cookie = << l.accessToken >>
       /\ l.method # "POST" => l.status = 405 /\ l.calls = << >>
       /\ l.method = "POST" /\ (l.token.kind # "string" \/ Trim(l.token.s) = << >>) =>
            l.status = 400 /\ l.calls = << >>
       /\ l.status = 200 => l.cookie # << >>

\* C30 (token login ordering): the handler sets the session cookie only after
\* fetchTodoistProjects has resolved for that token; when validation fails the
\* response is 401 or 503 and no cookie is set, and so is it with status 503 when
\* the secret is missing; once the cookie is set it stays set, and a failing
\* profile fetch gives 200 with success and profile null; a request that is not
\* a POST gets 405 and one whose token is no string or empty gets 400, both
\* without any upstream call.
C30_LoginOrdering ==
  [][ /\ LoginOrdered(login')
      /\ login.cookie # << >> => login'.cookie = login.cookie ]_vars

\* a token sent with a space on either side was validated as "a", the cookie
\* was set for "a", and the profile fetch then failed: 200 with profile null
C30_Witness ==
  /\ login.pc = "responded"
  /\ login.token.s = <<" ", "a", " ">>
  /\ login.calls = << [fn |-> "fetchTodoistProjects", token |-> <<"a">>, outcome |-> "resolved"],
                      [fn |-> "fetchTodoistProfile", token |-> <<"a">>, outcome |-> "rejected"] >>
  /\ login.cookie = << <<"a">> >>
  /\ login.status = 200
  /\ login.body.profile = "null"

====
